---- MODULE Spec2Model ----
(***************************************************************************)
(* Model of the Duel Commander 500 ETL pipeline (src/src/etl.py) and of    *)
(* the deck-performance query of the dashboard (src/src/dashboard.py).     *)
(*                                                                         *)
(* Spec   : main() of etl.py, stage by stage, run at most twice on the     *)
(*          same spreadsheet, with storage and export faults injected.     *)
(* SpecQ  : obter_performance_dos_decks() applied to the stores that a     *)
(*          successful run of the pipeline leaves.                         *)
(***************************************************************************)
EXTENDS Integers, Sequences, FiniteSets, TLC

VARIABLES
    input,      \* data/raw/CMD500_DB.xlsx: [exists, columns, rows]
    pc,         \* the statement main() is about to execute
    err,        \* the exception that ended the run: [stage, exc]
    ret,        \* main()'s return code
    df_clean,   \* the DataFrame returned by clean_tournament_data
    tables,     \* the four DataFrames returned by create_dimensional_tables
    db,         \* data/refined/duelcmd500.duckdb: [tables, indexes]
    xlsx,       \* data/refined/duelcmd500.xlsx: sheet name -> rows
    wpos,       \* next statement of save_to_duckdb (index into SaveOps)
    wlog,       \* history: statements save_to_duckdb executed in this run
    stages,     \* history: stages main() entered in this run
    run,        \* 1 for the first run of the pipeline, 2 for the second
    start,      \* history: [db, xlsx, ret] at the start of this run
    report      \* the DataFrame returned by obter_performance_dos_decks

vars == <<input, pc, err, ret, df_clean, tables, db, xlsx, wpos, wlog,
          stages, run, start, report>>

(***************************************************************************)
(* Bounds of the model.                                                    *)
(***************************************************************************)
MaxRows == 2        \* rows of the input spreadsheet
MaxFact == 5        \* rows of the spreadsheet behind the queried store

(***************************************************************************)
(* Missing values of pandas.                                               *)
(***************************************************************************)
NA == "<NA>"        \* empty cell of a text column (NaN / None / pd.NA)
NaT == "NaT"        \* pd.NaT, the missing date
NaN == -1           \* the float NaN pd.to_numeric(errors='coerce') yields
NoRet == -2         \* main() has not returned yet

isna(v) == v = NA \/ v = NaT

(***************************************************************************)
(* The spreadsheet.  Cell texts are drawn from a few representative        *)
(* values; the tables below give, for each of them, what the Python and    *)
(* pandas library calls of etl.py compute.                                 *)
(***************************************************************************)
required_columns == {"DATE", "POSITION", "INFO", "DECK", "DECKLIST", "STORE"}

RawRow(d, p, i, k, l, s) ==
    [DATE |-> d, POSITION |-> p, INFO |-> i, DECK |-> k, DECKLIST |-> l,
     STORE |-> s]

RawRows ==
    { RawRow("2023-01-01", "1", "", "Krenko", "http://x/1", "Game Haven"),
      RawRow("01-Jan-2023", "5", "mono red", "krenko", "http://x/1",
             " game haven"),
      RawRow("06-Feb-2023", "2", NA, "Atraxa", NA, "Arena"),
      RawRow("02/01/2023", "3", "", "Krenko", "http://x/1", "Game Haven"),
      RawRow("2023-01-01", "x", "", "Atraxa", "http://x/2", "Arena"),
      RawRow("2023-01-01", "4", "", NA, "http://x/2", "Arena"),
      RawRow("06-Feb-2023", "1", "", "Atraxa", "http://x/2", NA) }

ColumnSets ==
    { required_columns,
      required_columns \ {"STORE"},
      required_columns \ {"DATE", "DECK"} }

RowSeqs == UNION { [1..n -> RawRows] : n \in 0..MaxRows }

Inputs ==
    { [exists |-> TRUE, columns |-> c, rows |-> r] :
        c \in ColumnSets, r \in RowSeqs }
    \cup { [exists |-> FALSE, columns |-> {}, rows |-> <<>>] }

(***************************************************************************)
(* Library calls, tabulated on the cell texts above.                       *)
(***************************************************************************)
\* '-' in date_str
HasHyphen(s) == s \in {"2023-01-01", "01-Jan-2023", "06-Feb-2023"}

\* pd.to_datetime(x): the parsed Timestamp, NaT for a missing value, and
\* "raise" when dateutil cannot parse the text
to_datetime(x) ==
    CASE x = "2023-01-01" -> "2023-01-01"
      [] x = "01-Jan-2023" -> "2023-01-01"
      [] x = "06-Feb-2023" -> "2023-02-06"
      [] x = NA -> NaT
      [] OTHER -> "raise"

\* pd.to_datetime(x, format='%d-%b-%Y')
to_datetime_dby(x) ==
    CASE x = "01-Jan-2023" -> "2023-01-01"
      [] x = "06-Feb-2023" -> "2023-02-06"
      [] OTHER -> "raise"

\* the calendar fields strftime reads from a Timestamp
Calendar(date) ==
    CASE date = "2023-01-01" ->
           [Y |-> "2023", m |-> "01", d |-> "01", B |-> "January",
            A |-> "Sunday"]
      [] date = "2023-02-06" ->
           [Y |-> "2023", m |-> "02", d |-> "06", B |-> "February",
            A |-> "Monday"]

\* str.strip().lower()
strip_lower(s) ==
    CASE s = "Game Haven" -> "game haven"
      [] s = " game haven" -> "game haven"
      [] s = "Arena" -> "arena"

\* s[:3]
first3(s) ==
    CASE s = "game haven" -> "gam"
      [] s = "arena" -> "are"

\* hashlib.md5(s.encode()).hexdigest()[:4]
md5hex4(s) ==
    CASE s = "game haven" -> "5d0c"
      [] s = "arena" -> "93f1"

\* hashlib.md5(s.encode()).hexdigest()[:8]
md5hex8(s) ==
    CASE s = "http://x/1" -> "0a4d55a8"
      [] s = "http://x/2" -> "c81e728d"
      [] s = "http://x/3" -> "eccbc87e"

\* pd.to_numeric(x, errors='coerce') on one cell
to_numeric(x) ==
    CASE x = "1" -> 1
      [] x = "2" -> 2
      [] x = "3" -> 3
      [] x = "4" -> 4
      [] x = "5" -> 5
      [] OTHER -> NaN

(***************************************************************************)
(* Identifier Generator and Date Normalizer.  An operator that stands for  *)
(* a Python function yields "raise" where the function raises.             *)
(***************************************************************************)
generate_store_id(store_name) ==
    IF store_name = NA
    THEN "raise"                      \* float has no attribute 'strip'
    ELSE first3(strip_lower(store_name)) \o "_"
           \o md5hex4(strip_lower(store_name))

generate_tournament_id(date, store_id) ==
    IF date = NaT
    THEN "raise"                      \* NaTType does not support strftime
    ELSE "t_" \o Calendar(date).Y \o Calendar(date).m \o Calendar(date).d
           \o "_" \o store_id

generate_deck_id(decklist_url) ==
    IF isna(decklist_url) THEN NA ELSE "d_" \o md5hex8(decklist_url)

nome_mes_br(B) ==
    CASE B = "January" -> "Janeiro"
      [] B = "February" -> "Fevereiro"
      [] B = "March" -> "Março"
      [] B = "April" -> "Abril"
      [] B = "May" -> "Maio"
      [] B = "June" -> "Junho"
      [] B = "July" -> "Julho"
      [] B = "August" -> "Agosto"
      [] B = "September" -> "Setembro"
      [] B = "October" -> "Outubro"
      [] B = "November" -> "Novembro"
      [] B = "December" -> "Dezembro"
      [] OTHER -> B

dia_semana_br(A) ==
    CASE A = "Monday" -> "Segunda-feira"
      [] A = "Tuesday" -> "Terça-feira"
      [] A = "Wednesday" -> "Quarta-feira"
      [] A = "Thursday" -> "Quinta-feira"
      [] A = "Friday" -> "Sexta-feira"
      [] A = "Saturday" -> "Sábado"
      [] A = "Sunday" -> "Domingo"
      [] OTHER -> A

get_formatted_date(date) ==
    IF isna(date)
    THEN [DATA_BR |-> NA, MES_ANO |-> NA, NOME_MES |-> NA, DIA_SEMANA |-> NA]
    ELSE [DATA_BR |-> Calendar(date).d \o "/" \o Calendar(date).m \o "/"
                        \o Calendar(date).Y,
          MES_ANO |-> Calendar(date).m \o "/" \o Calendar(date).Y,
          NOME_MES |-> nome_mes_br(Calendar(date).B),
          DIA_SEMANA |-> dia_semana_br(Calendar(date).A)]

standardize_date(date_str) ==
    LET parsed == IF date_str # NA                 \* isinstance(.., str)
                  THEN IF HasHyphen(date_str)
                       THEN to_datetime(date_str)
                       ELSE to_datetime_dby(date_str)
                  ELSE to_datetime(date_str)
    IN  IF parsed = "raise" THEN NaT ELSE parsed

(***************************************************************************)
(* Record Cleaner.  A DataFrame is a sequence of records; the field index  *)
(* is the row label (read_excel numbers the rows from 0).                  *)
(***************************************************************************)
Missing(r, col) == IF col = "POSITION" THEN r[col] = NaN ELSE isna(r[col])

CriticalColumnsNoPosition == {"DATE", "DECK", "STORE"}

\* subset= of the dropna call
CriticalColumns == {"DATE", "POSITION", "DECK", "STORE"}

dropna(df, subset) ==
    SelectSeq(df, LAMBDA r : \A col \in subset : ~Missing(r, col))

reset_index(df) == [i \in 1..Len(df) |-> [df[i] EXCEPT !.index = i - 1]]

\* the row after every column assignment of clean_tournament_data
CleanRow(raw, i) ==
    LET date == standardize_date(raw.DATE)
        sid == generate_store_id(raw.STORE)
        fmt == get_formatted_date(date)
    IN  [index |-> i - 1,
         DATE |-> date,
         POSITION |-> to_numeric(raw.POSITION),
         INFO |-> IF raw.INFO = "" THEN NA ELSE raw.INFO,
         DECK |-> raw.DECK,
         DECKLIST |-> raw.DECKLIST,
         STORE |-> raw.STORE,
         STORE_ID |-> sid,
         DECK_ID |-> generate_deck_id(raw.DECKLIST),
         TOURNAMENT_ID |-> generate_tournament_id(date, sid),
         DATA_BR |-> fmt.DATA_BR,
         MES_ANO |-> fmt.MES_ANO,
         NOME_MES |-> fmt.NOME_MES,
         DIA_SEMANA |-> fmt.DIA_SEMANA]

\* [exc, df]: the exception clean_tournament_data raises ("none" when it
\* returns) and the DataFrame it returns
clean_tournament_data(rows) ==
    LET n == Len(rows)
        dates == [i \in 1..n |-> standardize_date(rows[i].DATE)]
        full == [i \in 1..n |-> CleanRow(rows[i], i)]
    IN  IF \E i \in 1..n : generate_store_id(rows[i].STORE) = "raise"
        THEN [exc |-> "AttributeError", df |-> <<>>]
        ELSE IF \E i \in 1..n :
                  generate_tournament_id(dates[i], full[i].STORE_ID) = "raise"
        THEN [exc |-> "ValueError", df |-> <<>>]
        ELSE IF n = 0                 \* zip(*[]) unpacked into four columns
        THEN [exc |-> "ValueError", df |-> <<>>]
        ELSE [exc |-> "none",
              df |-> reset_index(dropna(full, CriticalColumns))]

(***************************************************************************)
(* Dimensional Builder.  A table is [columns, rows]; the row label is not  *)
(* part of it (SELECT * FROM df and to_excel(index=False) leave it out).   *)
(***************************************************************************)
table_names == <<"tournaments_fact", "decks_dim", "stores_dim", "dates_dim">>

TableNames == {table_names[i] : i \in 1..Len(table_names)}

FactColumns ==
    {"TOURNAMENT_ID", "DATE", "STORE_ID", "DECK_ID", "POSITION", "INFO"}

DeckColumns == {"DECK_ID", "DECK", "DECKLIST"}

StoreColumns == {"STORE_ID", "STORE"}

DateColumns == {"DATE", "DATA_BR", "MES_ANO", "NOME_MES", "DIA_SEMANA"}

\* df[[...]] on the rows
Project(rows, cols) ==
    [i \in 1..Len(rows) |-> [c \in cols |-> rows[i][c]]]

RECURSIVE drop_duplicates(_)
\* DataFrame.drop_duplicates(): a row equal to an earlier one is removed
drop_duplicates(rows) ==
    IF rows = <<>>
    THEN <<>>
    ELSE LET front == drop_duplicates(SubSeq(rows, 1, Len(rows) - 1))
             last == rows[Len(rows)]
         IN  IF \E i \in 1..Len(front) : front[i] = last
             THEN front
             ELSE Append(front, last)

\* a builder that keeps the decks_dim row of the records without decklist
create_dimensional_tablesKeepNullDeck(df) ==
    [t \in TableNames |->
        CASE t = "tournaments_fact" ->
               [columns |-> FactColumns, rows |-> Project(df, FactColumns)]
          [] t = "decks_dim" ->
               [columns |-> DeckColumns,
                rows |-> drop_duplicates(Project(df, DeckColumns))]
          [] t = "stores_dim" ->
               [columns |-> StoreColumns,
                rows |-> drop_duplicates(Project(df, StoreColumns))]
          [] t = "dates_dim" ->
               [columns |-> DateColumns,
                rows |-> drop_duplicates(Project(df, DateColumns))]]

create_dimensional_tables(df) ==
    [t \in TableNames |->
        CASE t = "tournaments_fact" ->
               [columns |-> FactColumns, rows |-> Project(df, FactColumns)]
          [] t = "decks_dim" ->
               [columns |-> DeckColumns,
                rows |-> dropna(drop_duplicates(Project(df, DeckColumns)),
                                {"DECK_ID"})]
          [] t = "stores_dim" ->
               [columns |-> StoreColumns,
                rows |-> drop_duplicates(Project(df, StoreColumns))]
          [] t = "dates_dim" ->
               [columns |-> DateColumns,
                rows |-> drop_duplicates(Project(df, DateColumns))]]

(***************************************************************************)
(* Store Writer.  SaveOps is the statement sequence of save_to_duckdb;     *)
(* the store is [tables, indexes], tables a function on the names of the   *)
(* tables that exist.  Every statement is committed as it is executed.     *)
(***************************************************************************)
Stmt(op, table, name, column) ==
    [op |-> op, table |-> table, name |-> name, column |-> column]

IndexStmts ==
    << Stmt("index", "tournaments_fact", "idx_tournaments_tournament_id",
            "tournament_id"),
       Stmt("index", "tournaments_fact", "idx_tournaments_deck_id",
            "deck_id"),
       Stmt("index", "tournaments_fact", "idx_tournaments_store_id",
            "store_id"),
       Stmt("index", "tournaments_fact", "idx_tournaments_date", "date"),
       Stmt("index", "decks_dim", "idx_decks_deck_id", "deck_id"),
       Stmt("index", "stores_dim", "idx_stores_store_id", "store_id") >>

RECURSIVE TableStmts(_)
\* the loop over zip(tables, table_names): DROP TABLE IF EXISTS, then
\* CREATE TABLE AS SELECT (the COUNT(*) that follows only logs)
TableStmts(i) ==
    IF i > Len(table_names)
    THEN <<>>
    ELSE << Stmt("drop", table_names[i], "", ""),
            Stmt("create", table_names[i], "", "") >> \o TableStmts(i + 1)

\* a writer that builds the indexes of a table right after creating it
SaveOpsIndexEarly ==
    << Stmt("connect", "", "", "") >>
       \o SubSeq(TableStmts(1), 1, 2) \o SubSeq(IndexStmts, 1, 4)
       \o SubSeq(TableStmts(1), 3, 8) \o SubSeq(IndexStmts, 5, 6)
       \o << Stmt("commit", "", "", "") >>

SaveOps ==
    << Stmt("connect", "", "", "") >> \o TableStmts(1) \o IndexStmts
       \o << Stmt("commit", "", "", "") >>

\* column names are case-insensitive in the store
upper(column) ==
    CASE column = "tournament_id" -> "TOURNAMENT_ID"
      [] column = "deck_id" -> "DECK_ID"
      [] column = "store_id" -> "STORE_ID"
      [] column = "date" -> "DATE"

Restrict(f, S) == [x \in S |-> f[x]]

\* a writer that appends to a table that exists instead of replacing it
ExecuteAppend(st, d, tbls) ==
    CASE st.op = "create" ->
           [exc |-> "none",
            db |-> [d EXCEPT !.tables =
                       [t \in DOMAIN d.tables \cup {st.table} |->
                           IF t # st.table
                           THEN d.tables[t]
                           ELSE IF t \in DOMAIN d.tables
                           THEN [d.tables[t] EXCEPT
                                    !.rows = @ \o tbls[t].rows]
                           ELSE tbls[t]]]]
      [] st.op = "index" /\ ~\E x \in d.indexes : x.name = st.name ->
           [exc |-> "none",
            db |-> [d EXCEPT !.indexes = @ \cup
                       {[name |-> st.name, table |-> st.table,
                         column |-> st.column]}]]
      [] OTHER -> [exc |-> "none", db |-> d]

\* a writer whose DROP TABLE IF EXISTS is missing
ExecuteNoDrop(st, d, tbls) ==
    CASE st.op = "create" ->
           IF st.table \in DOMAIN d.tables
           THEN [exc |-> "CatalogException", db |-> d]
           ELSE [exc |-> "none",
                 db |-> [d EXCEPT !.tables =
                            [t \in DOMAIN d.tables \cup {st.table} |->
                                IF t = st.table THEN tbls[t] ELSE d.tables[t]]]]
      [] st.op = "index" /\ ~\E x \in d.indexes : x.name = st.name ->
           [exc |-> "none",
            db |-> [d EXCEPT !.indexes = @ \cup
                       {[name |-> st.name, table |-> st.table,
                         column |-> st.column]}]]
      [] OTHER -> [exc |-> "none", db |-> d]

\* [exc, db]: the effect of one statement on the store
Execute(st, d, tbls) ==
    CASE st.op = "drop" ->
           [exc |-> "none",
            db |-> [tables |-> Restrict(d.tables, DOMAIN d.tables \ {st.table}),
                    indexes |-> {x \in d.indexes : x.table # st.table}]]
      [] st.op = "create" ->
           IF st.table \in DOMAIN d.tables
           THEN [exc |-> "CatalogException", db |-> d]
           ELSE [exc |-> "none",
                 db |-> [d EXCEPT !.tables =
                            [t \in DOMAIN d.tables \cup {st.table} |->
                                IF t = st.table THEN tbls[t] ELSE d.tables[t]]]]
      [] st.op = "index" ->
           IF \E x \in d.indexes : x.name = st.name
           THEN [exc |-> "none", db |-> d]
           ELSE IF st.table \notin DOMAIN d.tables
                   \/ upper(st.column) \notin d.tables[st.table].columns
           THEN [exc |-> "CatalogException", db |-> d]
           ELSE [exc |-> "none",
                 db |-> [d EXCEPT !.indexes = @ \cup
                            {[name |-> st.name, table |-> st.table,
                              column |-> st.column]}]]
      [] OTHER -> [exc |-> "none", db |-> d]

(***************************************************************************)
(* main() of etl.py.                                                       *)
(***************************************************************************)
NoErr == [stage |-> "none", exc |-> "none"]

NoTables == [t \in {} |-> <<>>]

EmptyDb == [tables |-> NoTables, indexes |-> {}]

\* what an earlier successful run on another spreadsheet left behind
OldTables == create_dimensional_tables(
                 clean_tournament_data(
                     << RawRow("06-Feb-2023", "2", NA, "Atraxa", NA,
                               "Arena") >>).df)

OldDb ==
    [tables |-> OldTables,
     indexes |-> {[name |-> IndexStmts[i].name, table |-> IndexStmts[i].table,
                   column |-> IndexStmts[i].column] :
                     i \in 1..Len(IndexStmts)}]

Priors == { [db |-> EmptyDb, xlsx |-> NoTables],
            [db |-> OldDb, xlsx |-> OldTables] }

\* [exc]: the exception validate_raw_data raises, "none" when it returns
validate_raw_dataNoEmptyCheck(inp) ==
    IF required_columns \ inp.columns # {} THEN "ValueError" ELSE "none"

validate_raw_data(inp) ==
    IF required_columns \ inp.columns # {}
    THEN "ValueError"
    ELSE IF inp.rows = <<>> THEN "ValueError" ELSE "none"

NextStageExcelFirst(stage) ==
    CASE stage = "read" -> "validate"
      [] stage = "validate" -> "clean"
      [] stage = "clean" -> "build"
      [] stage = "build" -> "excel"
      [] stage = "excel" -> "save"
      [] stage = "save" -> "check"
      [] stage = "check" -> "done"

\* the statement order of main()'s try block
NextStage(stage) ==
    CASE stage = "read" -> "validate"
      [] stage = "validate" -> "clean"
      [] stage = "clean" -> "build"
      [] stage = "build" -> "save"
      [] stage = "save" -> "excel"
      [] stage = "excel" -> "check"
      [] stage = "check" -> "done"

\* main()'s return value: 0 at the end of the try block, 1 from the handler
ExitCode(exc) == IF exc = "none" THEN 0 ELSE 1

\* except Exception as e: ... return 1
Raise(stage, exc) ==
    /\ pc' = "done"
    /\ err' = [stage |-> stage, exc |-> exc]
    /\ ret' = ExitCode(exc)

Enter(stage) == stages' = Append(stages, stage)

Init ==
    /\ input \in Inputs
    /\ \E prior \in Priors :
          /\ db = prior.db
          /\ xlsx = prior.xlsx
          /\ start = [db |-> prior.db, xlsx |-> prior.xlsx, ret |-> NoRet]
    /\ pc = "read"
    /\ err = NoErr
    /\ ret = NoRet
    /\ df_clean = <<>>
    /\ tables = NoTables
    /\ wpos = 1
    /\ wlog = <<>>
    /\ stages = <<>>
    /\ run = 1
    /\ report = <<>>

\* setup_directories, the exists() test and read_excel
Read ==
    /\ pc = "read"
    /\ Enter("read")
    /\ IF ~input.exists
       THEN Raise("read", "FileNotFoundError")
       ELSE pc' = NextStage("read") /\ UNCHANGED <<err, ret>>
    /\ UNCHANGED <<input, df_clean, tables, db, xlsx, wpos, wlog, run, start,
                   report>>

Validate ==
    /\ pc = "validate"
    /\ Enter("validate")
    /\ IF validate_raw_data(input) # "none"
       THEN Raise("validate", validate_raw_data(input))
       ELSE pc' = NextStage("validate") /\ UNCHANGED <<err, ret>>
    /\ UNCHANGED <<input, df_clean, tables, db, xlsx, wpos, wlog, run, start,
                   report>>

Clean ==
    /\ pc = "clean"
    /\ Enter("clean")
    /\ LET r == clean_tournament_data(input.rows)
       IN  IF r.exc # "none"
           THEN Raise("clean", r.exc) /\ UNCHANGED df_clean
           ELSE /\ df_clean' = r.df
                /\ pc' = NextStage("clean")
                /\ UNCHANGED <<err, ret>>
    /\ UNCHANGED <<input, tables, db, xlsx, wpos, wlog, run, start, report>>

Build ==
    /\ pc = "build"
    /\ Enter("build")
    /\ tables' = create_dimensional_tables(df_clean)
    /\ pc' = NextStage("build")
    /\ UNCHANGED <<input, err, ret, df_clean, db, xlsx, wpos, wlog, run,
                   start, report>>

\* one statement of save_to_duckdb; an exception is logged and re-raised
SaveStep ==
    /\ pc = "save"
    /\ IF wpos = 1 THEN Enter("save") ELSE UNCHANGED stages
    /\ LET r == Execute(SaveOps[wpos], db, tables)
       IN  IF r.exc # "none"
           THEN Raise("save", r.exc) /\ UNCHANGED <<db, wpos, wlog>>
           ELSE /\ db' = r.db
                /\ wlog' = Append(wlog, SaveOps[wpos])
                /\ wpos' = wpos + 1
                /\ pc' = IF wpos = Len(SaveOps) THEN NextStage("save")
                                               ELSE "save"
                /\ UNCHANGED <<err, ret>>
    /\ UNCHANGED <<input, df_clean, tables, xlsx, run, start, report>>

\* the store fails on the statement (disk full, file locked, ...)
SaveFault ==
    /\ pc = "save"
    /\ IF wpos = 1 THEN Enter("save") ELSE UNCHANGED stages
    /\ Raise("save", "duckdb.Error")
    /\ UNCHANGED <<input, df_clean, tables, db, xlsx, wpos, wlog, run, start,
                   report>>

Excel ==
    /\ pc = "excel"
    /\ Enter("excel")
    /\ xlsx' = [i \in TableNames |-> tables[i]]
    /\ pc' = NextStage("excel")
    /\ UNCHANGED <<input, err, ret, df_clean, tables, db, wpos, wlog, run,
                   start, report>>

\* the workbook cannot be opened (left as it was) or the first to_excel
\* fails after ExcelWriter truncated the file
ExcelFault ==
    /\ pc = "excel"
    /\ Enter("excel")
    /\ xlsx' \in {xlsx, NoTables}
    /\ Raise("excel", "OSError")
    /\ UNCHANGED <<input, df_clean, tables, db, wpos, wlog, run, start,
                   report>>

\* the final SELECT COUNT(*) over the four tables
Check ==
    /\ pc = "check"
    /\ Enter("check")
    /\ IF TableNames \subseteq DOMAIN db.tables
       THEN /\ pc' = NextStage("check")
            /\ ret' = ExitCode("none")
            /\ UNCHANGED err
       ELSE Raise("check", "CatalogException")
    /\ UNCHANGED <<input, df_clean, tables, db, xlsx, wpos, wlog, run, start,
                   report>>

CheckFault ==
    /\ pc = "check"
    /\ Enter("check")
    /\ Raise("check", "duckdb.Error")
    /\ UNCHANGED <<input, df_clean, tables, db, xlsx, wpos, wlog, run, start,
                   report>>

\* the operator starts the pipeline again on the same spreadsheet
Rerun ==
    /\ pc = "done"
    /\ run = 1
    /\ run' = 2
    /\ start' = [db |-> db, xlsx |-> xlsx, ret |-> ret]
    /\ pc' = "read"
    /\ err' = NoErr
    /\ ret' = NoRet
    /\ df_clean' = <<>>
    /\ tables' = NoTables
    /\ wpos' = 1
    /\ wlog' = <<>>
    /\ stages' = <<>>
    /\ UNCHANGED <<input, db, xlsx, report>>

Next ==
    \/ Read
    \/ Validate
    \/ Clean
    \/ Build
    \/ SaveStep
    \/ SaveFault
    \/ Excel
    \/ ExcelFault
    \/ Check
    \/ CheckFault
    \/ Rerun

Spec == Init /\ [][Next]_vars

(***************************************************************************)
(* Properties of the ETL pipeline.                                         *)
(***************************************************************************)
Ran(stage) == \E i \in 1..Len(stages) : stages[i] = stage

MainOrder ==
    <<"read", "validate", "clean", "build", "save", "excel", "check">>

\* the Clean Record set the specification describes: the records with a
\* parsed date, a numeric position, a deck name and a store name, in input
\* order, relabelled from 0
ExpectedClean(rows) ==
    reset_index(
        SelectSeq([i \in 1..Len(rows) |-> CleanRow(rows[i], i)],
                  LAMBDA r : /\ r.DATE # NaT
                             /\ r.POSITION # NaN
                             /\ r.DECK # NA
                             /\ r.STORE # NA))

UnparsedDate(i) == standardize_date(input.rows[i].DATE) = NaT

\* C1: a record whose date fails every parse strategy is dropped and the
\* cleaner still returns, with all the other valid records (stated for
\* inputs whose store names are all present).
C1_BadDateIsDropped ==
    ( /\ Ran("clean")
      /\ \E i \in 1..Len(input.rows) : UnparsedDate(i)
      /\ \A i \in 1..Len(input.rows) : input.rows[i].STORE # NA )
    => ( /\ err.stage # "clean"
         /\ df_clean = ExpectedClean(input.rows) )

InvalidInput ==
    /\ input.exists
    /\ \/ required_columns \ input.columns # {}
       \/ input.rows = <<>>

\* C2: with a required column missing or with zero rows, validation fails
\* before any row is processed: cleaner, builder, store writer and export
\* never run, and store and workbook stay as they were.
C2_ValidationAborts ==
    InvalidInput =>
        /\ \A i \in 1..Len(stages) : stages[i] \in {"read", "validate"}
        /\ df_clean = <<>>
        /\ tables = NoTables
        /\ wlog = <<>>
        /\ db = start.db
        /\ xlsx = start.xlsx
        /\ pc = "done" => (ret = 1 /\ err.stage = "validate")

C2_Witness ==
    /\ InvalidInput
    /\ pc = "done"
    /\ err.stage = "validate"
    /\ db = OldDb

\* C3: no row of the DataFrame the cleaner returns has a missing date,
\* position, deck name or store name.
C3_FilteringInvariant ==
    \A i \in 1..Len(df_clean) :
        /\ df_clean[i].DATE # NaT
        /\ df_clean[i].POSITION # NaN
        /\ df_clean[i].DECK # NA
        /\ df_clean[i].STORE # NA

C3_Witness ==
    /\ Ran("clean")
    /\ err.stage # "clean"
    /\ Len(df_clean) >= 1
    /\ Len(df_clean) < Len(input.rows)

\* C4: for every validated input the cleaner returns exactly the records
\* with all four required fields, in input order and relabelled from 0;
\* a record missing one of them is dropped and causes no failure.
C4_CleanerReturnsExactlyValid ==
    Ran("clean") =>
        /\ err.stage # "clean"
        /\ df_clean = ExpectedClean(input.rows)

FirstWith(col, id) ==
    CHOOSE i \in 1..Len(df_clean) :
        /\ df_clean[i][col] = id
        /\ \A j \in 1..(i - 1) : df_clean[j][col] # id

\* one row per identifier, holding the attributes of the first record
OneRowPerId(dim, col, cols) ==
    /\ \A i, j \in 1..Len(dim.rows) :
          dim.rows[i][col] = dim.rows[j][col] => i = j
    /\ \A i \in 1..Len(dim.rows) :
          dim.rows[i] = [c \in cols |-> df_clean[FirstWith(col, dim.rows[i][col])][c]]

\* C5: decks_dim holds at most one row per deck identifier and stores_dim
\* at most one row per store identifier, each with the attribute values of
\* the first record seen with that identifier.
C5_DimensionsUniqueById ==
    tables # NoTables =>
        /\ OneRowPerId(tables["decks_dim"], "DECK_ID", DeckColumns)
        /\ OneRowPerId(tables["stores_dim"], "STORE_ID", StoreColumns)

SaveCompleted == wpos > Len(SaveOps)

\* C6: once save_to_duckdb has completed, each of the four store tables
\* holds exactly the rows and columns of the in-memory table of this run,
\* whatever the store held before.
C6_FullReplace ==
    SaveCompleted =>
        /\ DOMAIN db.tables = TableNames
        /\ \A t \in TableNames : db.tables[t] = tables[t]

C6_Witness ==
    /\ SaveCompleted
    /\ start.db = OldDb
    /\ Len(tables["tournaments_fact"].rows) >= 1
    /\ \A t \in TableNames : tables[t] # OldTables[t]

RowSet(table) == {table.rows[i] : i \in 1..Len(table.rows)}

\* C7: a second run on the same spreadsheet after a successful first run
\* meets no error of its own making (only injected store or export
\* faults), and when it succeeds the dimension tables hold the same rows
\* and the fact table the same number of rows as after the first run.
C7_SecondRunIdempotent ==
    (run = 2 /\ start.ret = 0) =>
        /\ err.exc \in {"none", "duckdb.Error", "OSError"}
        /\ (pc = "done" /\ ret = 0) =>
              /\ \A t \in {"decks_dim", "stores_dim", "dates_dim"} :
                    /\ RowSet(db.tables[t]) = RowSet(start.db.tables[t])
                    /\ db.tables[t].columns = start.db.tables[t].columns
              /\ Len(db.tables["tournaments_fact"].rows)
                    = Len(start.db.tables["tournaments_fact"].rows)

C7_Witness ==
    /\ run = 2
    /\ start.ret = 0
    /\ pc = "done"
    /\ ret = 0
    /\ Len(db.tables["tournaments_fact"].rows) >= 2
    /\ Cardinality(db.indexes) = Len(IndexStmts)

Logged(op, t) ==
    \E i \in 1..Len(wlog) : wlog[i].op = op /\ wlog[i].table = t

SixIndexes ==
    { <<"tournaments_fact", "tournament_id">>,
      <<"tournaments_fact", "deck_id">>,
      <<"tournaments_fact", "store_id">>,
      <<"tournaments_fact", "date">>,
      <<"decks_dim", "deck_id">>,
      <<"stores_dim", "store_id">> }

\* C8: no index is built before the four tables are created; on success
\* the six indexes exist; an error in the writer reaches main (which
\* returns 1), no later statement or stage runs, and the tables replaced
\* before the error stay replaced.
C8_IndexesAfterTablesNoRollback ==
    /\ \A i \in 1..Len(wlog) :
          wlog[i].op = "index" =>
              \A t \in TableNames :
                  \E j \in 1..(i - 1) :
                      wlog[j].op = "create" /\ wlog[j].table = t
    /\ SaveCompleted =>
          {<<x.table, x.column>> : x \in db.indexes} = SixIndexes
    /\ err.stage = "save" =>
          /\ pc = "done"
          /\ ret = 1
          /\ ~Ran("excel")
          /\ ~Ran("check")
          /\ xlsx = start.xlsx
          /\ Len(wlog) = wpos - 1
          /\ wpos <= Len(SaveOps)
          /\ \A t \in TableNames :
                IF Logged("create", t)
                THEN t \in DOMAIN db.tables /\ db.tables[t] = tables[t]
                ELSE IF Logged("drop", t)
                THEN t \notin DOMAIN db.tables
                ELSE /\ (t \in DOMAIN db.tables) = (t \in DOMAIN start.db.tables)
                     /\ t \in DOMAIN db.tables =>
                            db.tables[t] = start.db.tables[t]

C8_Witness ==
    /\ err.stage = "save"
    /\ start.db = OldDb
    /\ Logged("create", "tournaments_fact")
    /\ Logged("drop", "decks_dim")
    /\ ~Logged("create", "decks_dim")
    /\ db.tables["tournaments_fact"] # start.db.tables["tournaments_fact"]

IsPrefix(s, t) == Len(s) <= Len(t) /\ \A i \in 1..Len(s) : s[i] = t[i]

\* C9 as amended: the stages run in the fixed order, the first failing
\* stage is the last one entered and main returns 1; main returns 0 only
\* after every stage completed; a failure before the store writer leaves
\* store and workbook unchanged.
C9_StagesInOrderFailFast ==
    /\ IsPrefix(stages, MainOrder)
    /\ pc = "done" => ret \in {0, 1}
    /\ pc # "done" => (ret = NoRet /\ err = NoErr)
    /\ err # NoErr =>
          /\ pc = "done"
          /\ ret = 1
          /\ stages[Len(stages)] = err.stage
    /\ (pc = "done" /\ ret = 0) =>
          /\ err = NoErr
          /\ stages = MainOrder
          /\ SaveCompleted
          /\ \A t \in TableNames : db.tables[t] = tables[t] /\ xlsx[t] = tables[t]
    /\ (pc = "done" /\ err.stage \in {"read", "validate", "clean"}) =>
          /\ db = start.db
          /\ xlsx = start.xlsx

C9_Witness ==
    /\ pc = "done"
    /\ ret = 1
    /\ err.stage = "excel"
    /\ db # start.db
    /\ xlsx = start.xlsx

\* C9 as stated: a non-zero return implies the run produced no output.
C9_NonZeroMeansNoOutput ==
    (pc = "done" /\ ret # 0) => (db = start.db /\ xlsx = start.xlsx)

(***************************************************************************)
(* Reporting Query: obter_performance_dos_decks of dashboard.py.           *)
(* taxa_top4 is kept in hundredths of a percent (ROUND(.., 2)).  The       *)
(* columns primeira_aparicao and ultima_aparicao are left out.             *)
(***************************************************************************)
Top4Position == 4       \* t.position <= 4
MinAparicoes == 2       \* HAVING COUNT(*) >= 2
TaxaThreshold == 50     \* taxa_top4 >= 50
Percent == 100          \* .. * 100
Cent == 100             \* two decimals: units per percent point

\* LOWER(d.deck)
LOWER(s) ==
    CASE s = "Krenko" -> "krenko"
      [] s = "krenko" -> "krenko"
      [] s = "Atraxa" -> "atraxa"

RECURSIVE Sum(_, _)
Sum(f, S) ==
    IF S = {} THEN 0
    ELSE LET x == CHOOSE y \in S : TRUE IN f[x] + Sum(f, S \ {x})

\* tournaments_fact t JOIN decks_dim d ON t.deck_id = d.deck_id: pairs of
\* row numbers (a NULL deck_id joins nothing)
Joined(fact, dim) ==
    { <<i, j>> \in (1..Len(fact.rows)) \X (1..Len(dim.rows)) :
        /\ fact.rows[i].DECK_ID # NA
        /\ fact.rows[i].DECK_ID = dim.rows[j].DECK_ID }

IsTop4Strict(position) == position < Top4Position

\* FILTER (WHERE t.position <= 4)
IsTop4(position) == position <= Top4Position

\* HAVING COUNT(*) >= 2
Having(total) == total >= MinAparicoes

\* ROUND(top4::FLOAT / total::FLOAT * 100, 2), in hundredths
taxa_top4(top4, total) ==
    (2 * top4 * Percent * Cent + total) \div (2 * total)

\* the CTE estatisticas_decks: GROUP BY d.deck, one record per group
estatisticas_decks(fact, dim) ==
    LET J == Joined(fact, dim)
        G == {dim.rows[p[2]].DECK : p \in J}
        Of(g) == {p \in J : dim.rows[p[2]].DECK = g}
        Total(g) == Cardinality(Of(g))
        Top4(g) == Cardinality({p \in Of(g) :
                                   IsTop4(fact.rows[p[1]].POSITION)})
    IN  [g \in {h \in G : Having(Total(h))} |->
            [deck |-> LOWER(g),
             total_aparicoes |-> Total(g),
             quantidade_top4 |-> Top4(g),
             taxa_top4 |-> taxa_top4(Top4(g), Total(g))]]

\* the CASE of the outer SELECT; sum / n is AVG(total_aparicoes) over the
\* n rows of the CTE
categoria_performance(r, n, sum) ==
    CASE r.taxa_top4 >= TaxaThreshold * Cent /\ r.total_aparicoes * n >= sum
           -> "TOPPERS"
      [] r.taxa_top4 >= TaxaThreshold * Cent -> "HIDDEN GEMS"
      [] r.total_aparicoes * n >= sum -> "QUERIDINHOS DOS FÃS"
      [] OTHER -> "CRINGES"

\* ORDER BY total_aparicoes DESC, taxa_top4 DESC: a may precede b
OrderBy(a, b) ==
    \/ a.total_aparicoes > b.total_aparicoes
    \/ /\ a.total_aparicoes = b.total_aparicoes
       /\ a.taxa_top4 >= b.taxa_top4

\* the result sets the query can return: the rows of the CTE with their
\* category, in any order that ORDER BY allows
obter_performance_dos_decks(d) ==
    LET cte == estatisticas_decks(d.tables["tournaments_fact"],
                                  d.tables["decks_dim"])
        G == DOMAIN cte
        n == Cardinality(G)
        sum == Sum([g \in G |-> cte[g].total_aparicoes], G)
        Row(g) == [deck |-> cte[g].deck,
                   total_aparicoes |-> cte[g].total_aparicoes,
                   quantidade_top4 |-> cte[g].quantidade_top4,
                   taxa_top4 |-> cte[g].taxa_top4,
                   categoria_performance |->
                       categoria_performance(cte[g], n, sum)]
    IN  { [i \in 1..n |-> Row(o[i])] :
            o \in { q \in [1..n -> G] :
                      /\ \A i, j \in 1..n : q[i] = q[j] => i = j
                      /\ \A i \in 1..(n - 1) :
                            OrderBy(cte[q[i]], cte[q[i + 1]]) } }

(***************************************************************************)
(* The stores offered to the query are those a successful run of the       *)
(* pipeline leaves for a spreadsheet of up to MaxFact complete rows.  The  *)
(* query does not depend on the order of the rows, so the spreadsheet is   *)
(* grown in one fixed order of the row kinds.                              *)
(***************************************************************************)
\* the deck name and the decklist of a row: one name on two lists, two
\* names on one list, names that differ in case only, a missing decklist
QDeckLists ==
    << <<"Krenko", "http://x/1">>,
       <<"Krenko", "http://x/2">>,
       <<"krenko", "http://x/1">>,
       <<"krenko", "http://x/3">>,
       <<"Atraxa", "http://x/2">>,
       <<"Atraxa", NA>> >>

QPositions == <<"4", "5">>

QKinds == Len(QDeckLists) * Len(QPositions)

\* the k-th kind of row
QRow(k) ==
    RawRow("2023-01-01",
           QPositions[((k - 1) % Len(QPositions)) + 1],
           "",
           QDeckLists[((k - 1) \div Len(QPositions)) + 1][1],
           QDeckLists[((k - 1) \div Len(QPositions)) + 1][2],
           "Arena")

QKind(row) == CHOOSE k \in 1..QKinds : QRow(k) = row

RECURSIVE RunSave(_, _, _)
\* save_to_duckdb run to its end without a fault
RunSave(i, d, tbls) ==
    IF i > Len(SaveOps) THEN d
    ELSE RunSave(i + 1, Execute(SaveOps[i], d, tbls).db, tbls)

InitQ ==
    /\ input = [exists |-> TRUE, columns |-> required_columns, rows |-> <<>>]
    /\ pc = "sheet"
    /\ err = NoErr
    /\ ret = NoRet
    /\ df_clean = <<>>
    /\ tables = NoTables
    /\ db = EmptyDb
    /\ xlsx = NoTables
    /\ wpos = 1
    /\ wlog = <<>>
    /\ stages = <<>>
    /\ run = 1
    /\ start = [db |-> EmptyDb, xlsx |-> NoTables, ret |-> NoRet]
    /\ report = <<>>

\* one more row is typed into the spreadsheet
AddRow ==
    /\ pc = "sheet"
    /\ Len(input.rows) < MaxFact
    /\ \E k \in 1..QKinds :
          /\ input.rows # <<>> => k >= QKind(input.rows[Len(input.rows)])
          /\ input' = [input EXCEPT !.rows = Append(@, QRow(k))]
    /\ UNCHANGED <<pc, err, ret, df_clean, tables, db, xlsx, wpos, wlog,
                   stages, run, start, report>>

\* main() of etl.py runs to its end and returns 0
Etl ==
    /\ pc = "sheet"
    /\ validate_raw_data(input) = "none"
    /\ LET r == clean_tournament_data(input.rows)
           tbls == create_dimensional_tables(r.df)
       IN  /\ r.exc = "none"
           /\ df_clean' = r.df
           /\ tables' = tbls
           /\ db' = RunSave(1, db, tbls)
           /\ xlsx' = [i \in TableNames |-> tbls[i]]
    /\ pc' = "stored"
    /\ ret' = ExitCode("none")
    /\ UNCHANGED <<input, err, wpos, wlog, stages, run, start, report>>

\* the dashboard runs the query on the store
Query ==
    /\ pc = "stored"
    /\ report' \in obter_performance_dos_decks(db)
    /\ pc' = "shown"
    /\ UNCHANGED <<input, err, ret, df_clean, tables, db, xlsx, wpos, wlog,
                   stages, run, start>>

NextQ ==
    \/ AddRow
    \/ Etl
    \/ Query

SpecQ == InitQ /\ [][NextQ]_vars

(***************************************************************************)
(* Properties of the Reporting Query.                                      *)
(***************************************************************************)
FactRows == db.tables["tournaments_fact"].rows

DeckRows == db.tables["decks_dim"].rows

\* the fact rows of the deck named g: those whose deck identifier
\* decks_dim gives the name g
AppearancesOf(g) ==
    { i \in 1..Len(FactRows) :
        \E j \in 1..Len(DeckRows) :
            /\ DeckRows[j].DECK = g
            /\ DeckRows[j].DECK_ID = FactRows[i].DECK_ID }

Top4Of(g) == { i \in AppearancesOf(g) : FactRows[i].POSITION <= 4 }

QualifyingDecks ==
    { g \in {DeckRows[j].DECK : j \in 1..Len(DeckRows)} :
        Cardinality(AppearancesOf(g)) >= 2 }

HighRate(g) ==
    100 * Cardinality(Top4Of(g)) >= 50 * Cardinality(AppearancesOf(g))

Popular(g) ==
    Cardinality(AppearancesOf(g)) * Cardinality(QualifyingDecks)
        >= Sum([h \in QualifyingDecks |-> Cardinality(AppearancesOf(h))],
               QualifyingDecks)

CategoryOf(g) ==
    IF HighRate(g) /\ Popular(g) THEN "TOPPERS"
    ELSE IF HighRate(g) THEN "HIDDEN GEMS"
    ELSE IF Popular(g) THEN "QUERIDINHOS DOS FÃS"
    ELSE "CRINGES"

Column(table, col) == {table.rows[i][col] : i \in 1..Len(table.rows)}

\* C11: the fact table has exactly one row per Clean Record; every store
\* identifier and every date of the fact table occurs in stores_dim and
\* dates_dim, every non-null deck identifier occurs in decks_dim, and
\* decks_dim has no row for the null deck identifier.
C11_ReferentialIntegrity ==
    tables # NoTables =>
        LET fact == tables["tournaments_fact"]
        IN  /\ Len(fact.rows) = Len(df_clean)
            /\ \A i \in 1..Len(df_clean) :
                  \A c \in FactColumns : fact.rows[i][c] = df_clean[i][c]
            /\ Column(fact, "STORE_ID") \subseteq
                  Column(tables["stores_dim"], "STORE_ID")
            /\ Column(fact, "DATE") \subseteq
                  Column(tables["dates_dim"], "DATE")
            /\ Column(fact, "DECK_ID") \ {NA} \subseteq
                  Column(tables["decks_dim"], "DECK_ID")
            /\ NA \notin Column(tables["decks_dim"], "DECK_ID")

C11_Witness ==
    /\ tables # NoTables
    /\ Len(df_clean) = 2
    /\ NA \in Column(tables["tournaments_fact"], "DECK_ID")
    /\ Len(tables["decks_dim"].rows) = 1
    /\ Len(tables["stores_dim"].rows) = 2
    /\ Len(tables["dates_dim"].rows) = 2

====
